---- MODULE Spec2Model ----
(***************************************************************************)
(* Model of the task routes (src/routes/tasks.js) behind the bearer-token  *)
(* gate (src/server.js, authenticateToken).                                *)
(*                                                                         *)
(* The tasks table is the set `tasks` of rows.  A request is handled by    *)
(* one action (Get, Post, Patch, Delete) that runs the gate and then the   *)
(* whole handler; `req`, `resp` and `pre` record the request just handled, *)
(* its response and the store as it was before the request.  The steps of  *)
(* PATCH and DELETE between their awaits are modelled separately (procs)   *)
(* for the interleaving of concurrently handled requests.                  *)
(*                                                                         *)
(* Data-store conventions taken from the handlers: a SELECT answers with   *)
(* the row list at index 0 of its result, an INSERT answers with insertId, *)
(* a query may throw (data-access fault), LIMIT/OFFSET reject negative     *)
(* numbers, and the order of rows that the ORDER BY clause does not decide *)
(* is the engine's choice (TieBreaks).                                     *)
(***************************************************************************)
EXTENDS Integers, Sequences, FiniteSets, TLC

VARIABLES tasks, nextId, clock, held, req, resp, pre, procs

vars == <<tasks, nextId, clock, held, req, resp, pre, procs>>

(***************************************************************************)
(* Bounds of the model                                                     *)
(***************************************************************************)
MaxTasks == 2
MaxClock == 1
MaxBulk == 11

(***************************************************************************)
(* Program constants                                                       *)
(***************************************************************************)
PoolSize == 5
DefaultPage == 1
DefaultLimit == 10

\* JavaScript undefined and null, as they appear in a JSON body or a query
Undefined == "<undefined>"
Null == "<null>"

StatusEnum == {"pending", "in_progress", "completed"}
SortFields == {"title", "status", "created_at", "updated_at"}

Users == {1, 2}

\* JavaScript truthiness of a string-or-absent value
Truthy(v) == v # Undefined /\ v # Null /\ v # ""

Min(a, b) == IF a < b THEN a ELSE b

(***************************************************************************)
(* Authorization gate                                                      *)
(***************************************************************************)
\* The Authorization header as authHeader.split(' ') sees it: the list of
\* its space-separated words; the empty list is the absent header.
NoHeader == <<>>

\* jwt.verify under the process secret: the tokens the login flow signed for
\* users 1 and 2 verify and decode to their user; anything else is an error.
JwtVerify(token) ==
    CASE token = "tok1" -> [err |-> FALSE, user |-> [id |-> 1]]
      [] token = "tok2" -> [err |-> FALSE, user |-> [id |-> 2]]
      [] OTHER -> [err |-> TRUE, user |-> [id |-> 0]]

Unauthorized ==
    [code |-> 401, error |-> "Unauthorized", message |-> "Authentication token is required"]

Forbidden ==
    [code |-> 403, error |-> "Forbidden", message |-> "Invalid or expired token"]

\* a gate that answers an invalid token like a missing one
AuthenticateTokenNoForbidden(authHeader) ==
    LET token == IF Len(authHeader) >= 2 THEN authHeader[2] ELSE Undefined
        v == JwtVerify(token)
    IN  IF ~Truthy(token) \/ v.err
        THEN [next |-> FALSE, res |-> Unauthorized, user |-> [id |-> 0]]
        ELSE [next |-> TRUE, res |-> [code |-> 0], user |-> v.user]

\* authenticateToken: next |-> TRUE when the handler is to run with req.user
AuthenticateToken(authHeader) ==
    LET token == IF Len(authHeader) >= 2 THEN authHeader[2] ELSE Undefined
        v == JwtVerify(token)
    IN  IF ~Truthy(token)
        THEN [next |-> FALSE, res |-> Unauthorized, user |-> [id |-> 0]]
        ELSE IF v.err
             THEN [next |-> FALSE, res |-> Forbidden, user |-> [id |-> 0]]
             ELSE [next |-> TRUE, res |-> [code |-> 0], user |-> v.user]

(***************************************************************************)
(* parseInt(x) || default                                                  *)
(***************************************************************************)
\* A query parameter is the list of its characters; an absent parameter is
\* undefined, which parseInt reads as the text "undefined".
UndefinedParam == <<"undefined">>

Digits == {"0", "1", "2", "3", "4", "5", "6", "7", "8", "9"}

DigitVal(c) ==
    CASE c = "0" -> 0 [] c = "1" -> 1 [] c = "2" -> 2 [] c = "3" -> 3 [] c = "4" -> 4
      [] c = "5" -> 5 [] c = "6" -> 6 [] c = "7" -> 7 [] c = "8" -> 8 [] c = "9" -> 9

RECURSIVE ParseDigits(_, _, _)
\* value of the longest run of digits of s from position i on, after acc
ParseDigits(s, i, acc) ==
    IF i > Len(s) \/ s[i] \notin Digits
    THEN acc
    ELSE ParseDigits(s, i + 1, acc * 10 + DigitVal(s[i]))

\* parseInt: optional sign, then digits up to the first other character;
\* NaN when no digit follows the sign
ParseInt(s) ==
    LET neg == Len(s) >= 1 /\ s[1] = "-"
        start == IF Len(s) >= 1 /\ s[1] \in {"-", "+"} THEN 2 ELSE 1
    IN  IF start > Len(s) \/ s[start] \notin Digits
        THEN [nan |-> TRUE, val |-> 0]
        ELSE [nan |-> FALSE,
              val |-> IF neg THEN 0 - ParseDigits(s, start, 0) ELSE ParseDigits(s, start, 0)]

\* parseInt(s) || dflt: NaN and 0 are falsy, every other number is kept
ParseOr(s, dflt) ==
    LET n == ParseInt(s) IN IF n.nan \/ n.val = 0 THEN dflt ELSE n.val

(***************************************************************************)
(* Row order of a SELECT                                                   *)
(***************************************************************************)
\* Collation order of the strings that occur as titles and statuses
StrOrder == <<"a", "b", "completed", "in_progress", "pending">>

StrRank(s) == CHOOSE i \in 1..Len(StrOrder) : StrOrder[i] = s

\* Orders the engine may give to rows the ORDER BY clause leaves tied
TieBreaks == {"id_asc", "id_desc"}

NoOrder == [field |-> "none", direction |-> "ASC"]

SortKey(t, field) ==
    CASE field = "title" -> StrRank(t.title)
      [] field = "status" -> StrRank(t.status)
      [] field = "created_at" -> t.created_at
      [] field = "updated_at" -> t.updated_at
      [] OTHER -> 0

Before(a, b, order, tb) ==
    LET ka == SortKey(a, order.field)
        kb == SortKey(b, order.field)
    IN  IF ka # kb
        THEN IF order.direction = "DESC" THEN ka > kb ELSE ka < kb
        ELSE IF tb = "id_asc" THEN a.id < b.id ELSE a.id > b.id

RECURSIVE SortRows(_, _, _)
SortRows(rows, order, tb) ==
    IF rows = {}
    THEN <<>>
    ELSE LET first == CHOOSE x \in rows : \A y \in rows \ {x} : Before(x, y, order, tb)
         IN  <<first>> \o SortRows(rows \ {first}, order, tb)

\* LIMIT limit OFFSET offset over the ordered rows
Window(rows, limit, offset) ==
    IF offset >= Len(rows) THEN <<>> ELSE SubSeq(rows, offset + 1, Min(offset + limit, Len(rows)))

(***************************************************************************)
(* Responses                                                               *)
(***************************************************************************)
ErrorBody(code, error, message) == [code |-> code, error |-> error, message |-> message]

NotFound == ErrorBody(404, "Not Found", "Task not found or you do not have permission")

BadRequest(message) == ErrorBody(400, "Bad Request", message)

InternalError(message) == ErrorBody(500, "Internal Server Error", message)

(***************************************************************************)
(* GET /tasks                                                              *)
(***************************************************************************)
\* The sort parameter as sort.split(':') sees it: the list of its
\* colon-separated parts; the empty list is the absent parameter.
NoSort == <<>>

SortGiven(sort) == sort # NoSort /\ sort # <<"">>

\* line 18: the status filter of the list query
StatusFilter(status) == Truthy(status) /\ status \in StatusEnum

\* line 34: the status filter of the count query
CountFilter(status) == Truthy(status)

\* lines 23-31: the ORDER BY clause of the list query
OrderClause(sort) ==
    IF SortGiven(sort)
    THEN IF Truthy(sort[1]) /\ sort[1] \in SortFields
         THEN [field |-> sort[1],
               direction |-> IF Len(sort) >= 2 /\ sort[2] = "desc" THEN "DESC" ELSE "ASC"]
         ELSE NoOrder
    ELSE [field |-> "created_at", direction |-> "DESC"]

\* a list query without the owner constraint
ListRowsAnyOwner(T, userId, status) ==
    {t \in T : StatusFilter(status) => t.status = status}

\* lines 15-21: WHERE user_id = ? [AND status = ?]
ListRows(T, userId, status) ==
    {t \in T : t.user_id = userId /\ (StatusFilter(status) => t.status = status)}

\* lines 33-36: SELECT COUNT(*) ... WHERE user_id = ? [AND status = ?]
CountRows(T, userId, status) ==
    Cardinality({t \in T : t.user_id = userId /\ (CountFilter(status) => t.status = status)})

\* lines 65-73
FormatTask(t) ==
    [id |-> t.id, title |-> t.title, description |-> t.description, status |-> t.status,
     user_id |-> t.user_id, createdAt |-> t.created_at, updatedAt |-> t.updated_at]

FormatTasks(rows) == [i \in 1..Len(rows) |-> FormatTask(rows[i])]

\* The GET handler after the gate.  fault = n makes the n-th query throw;
\* tb is the engine's order of tied rows.  Result: the response and the
\* number of pool connections held afterwards.
GetTasks(T, h, user, query, fault, tb) ==
    LET page == ParseOr(query.page, DefaultPage)
        limit == ParseOr(query.limit, DefaultLimit)
        offset == (page - 1) * limit
        failed == [resp |-> InternalError("Failed to fetch tasks"), held |-> h + 1]
    IN  IF h >= PoolSize
        THEN [resp |-> InternalError("Failed to fetch tasks"), held |-> h]
        ELSE IF fault = 1
        THEN failed
        ELSE IF fault = 2 \/ limit < 0 \/ offset < 0
        THEN failed
        ELSE LET total == CountRows(T, user.id, query.status)
                 rows == Window(SortRows(ListRows(T, user.id, query.status),
                                         OrderClause(query.sort), tb), limit, offset)
             IN  [resp |-> [code |-> 200, page |-> page, limit |-> limit, total |-> total,
                            tasks |-> FormatTasks(rows)],
                  held |-> h]

(***************************************************************************)
(* POST /tasks                                                             *)
(***************************************************************************)
\* an INSERT that stores every task as pending
NewTaskAlwaysPending(id, user, body, now) ==
    [id |-> id,
     title |-> body.title,
     description |-> IF Truthy(body.description) THEN body.description ELSE Null,
     status |-> "pending",
     user_id |-> user.id,
     created_at |-> now,
     updated_at |-> now]

\* lines 111-114: the inserted row
NewTask(id, user, body, now) ==
    [id |-> id,
     title |-> body.title,
     description |-> IF Truthy(body.description) THEN body.description ELSE Null,
     status |-> IF Truthy(body.status) THEN body.status ELSE "pending",
     user_id |-> user.id,
     created_at |-> now,
     updated_at |-> now]

\* The POST handler after the gate.  fault = 1 makes the INSERT throw.
CreateTask(T, nid, h, user, body, now, fault) ==
    IF ~Truthy(body.title)
    THEN [resp |-> BadRequest("Title is required and must be at least 1 character long"),
          tasks |-> T, nextId |-> nid, held |-> h]
    ELSE IF Truthy(body.status) /\ body.status \notin StatusEnum
    THEN [resp |-> BadRequest("Status must be pending, in_progress, or completed"),
          tasks |-> T, nextId |-> nid, held |-> h]
    ELSE IF h >= PoolSize
    THEN [resp |-> InternalError("An unexpected error occurred"),
          tasks |-> T, nextId |-> nid, held |-> h]
    ELSE IF fault = 1
    THEN [resp |-> InternalError("An unexpected error occurred"),
          tasks |-> T, nextId |-> nid, held |-> h + 1]
    ELSE [resp |-> [code |-> 201, success |-> TRUE,
                    message |-> "Task created successfully",
                    taskId |-> nid,
                    title |-> body.title,
                    description |-> IF Truthy(body.description) THEN body.description
                                    ELSE Null,
                    status |-> IF Truthy(body.status) THEN body.status ELSE "pending"],
          tasks |-> T \cup {NewTask(nid, user, body, now)},
          nextId |-> nid + 1, held |-> h]

(***************************************************************************)
(* PATCH /tasks/:taskId                                                    *)
(***************************************************************************)
\* an ownership check that looks the task up by id alone
OwnedRowsAnyOwner(T, taskId, userId) == {t \in T : t.id = taskId}

\* lines 148, 238: SELECT * FROM tasks WHERE id = ? AND user_id = ?
OwnedRows(T, taskId, userId) == {t \in T : t.id = taskId /\ t.user_id = userId}

\* an UPDATE that writes the title whether or not the body carries one
ApplyUpdateAllFields(T, taskId, body, now) ==
    {IF t.id # taskId THEN t
     ELSE [t EXCEPT !.updated_at = now,
                    !.title = IF body.title # Undefined THEN body.title ELSE "a",
                    !.description = IF body.description # Undefined THEN body.description ELSE @,
                    !.status = IF body.status # Undefined THEN body.status ELSE @] : t \in T}

\* lines 159-202: UPDATE tasks SET updated_at = ?, [title = ?,] [description = ?,]
\* [status = ?] WHERE id = ?
ApplyUpdate(T, taskId, body, now) ==
    {IF t.id # taskId THEN t
     ELSE [t EXCEPT !.updated_at = now,
                    !.title = IF body.title # Undefined THEN body.title ELSE @,
                    !.description = IF body.description # Undefined THEN body.description ELSE @,
                    !.status = IF body.status # Undefined THEN body.status ELSE @] : t \in T}

\* lines 204-217: the re-read row list (at most one row), identifiers normalised
ReRead(T, taskId) ==
    LET rows == {t \in T : t.id = taskId}
    IN  IF rows = {} THEN <<>> ELSE <<FormatTask(CHOOSE t \in rows : TRUE)>>

\* lines 163-199: the validation between the ownership check and the UPDATE;
\* "ok", "throw" (title.length of null), or the 400 message
ValidateUpdate(body) ==
    IF body.title # Undefined /\ body.title = Null
    THEN "throw"
    ELSE IF body.title # Undefined /\ body.title = ""
    THEN "Title must be at least 1 character long"
    ELSE IF body.status # Undefined /\ body.status \notin StatusEnum
    THEN "Invalid status"
    ELSE IF body.title = Undefined /\ body.description = Undefined /\ body.status = Undefined
    THEN "No fields to update provided"
    ELSE "ok"

\* The PATCH handler after the gate.  fault = n makes the n-th query throw
\* (1 ownership SELECT, 2 UPDATE, 3 re-read).
UpdateTask(T, h, user, taskId, body, now, fault) ==
    LET failed(TT) == [resp |-> InternalError("Failed to update task"),
                       tasks |-> TT, held |-> h + 1]
        v == ValidateUpdate(body)
    IN  IF h >= PoolSize
        THEN [resp |-> InternalError("Failed to update task"), tasks |-> T, held |-> h]
        ELSE IF fault = 1
        THEN failed(T)
        ELSE IF OwnedRows(T, taskId, user.id) = {}
        THEN [resp |-> NotFound, tasks |-> T, held |-> h]
        ELSE IF v = "throw"
        THEN failed(T)
        ELSE IF v # "ok"
        THEN [resp |-> BadRequest(v), tasks |-> T, held |-> h]
        ELSE IF fault = 2
        THEN failed(T)
        ELSE IF fault = 3
        THEN failed(ApplyUpdate(T, taskId, body, now))
        ELSE LET TT == ApplyUpdate(T, taskId, body, now)
             IN  [resp |-> [code |-> 200, task |-> ReRead(TT, taskId)],
                  tasks |-> TT, held |-> h]

(***************************************************************************)
(* DELETE /tasks/:taskId                                                   *)
(***************************************************************************)
\* line 249: DELETE FROM tasks WHERE id = ?
RemoveRow(T, taskId) == {t \in T : t.id # taskId}

\* The DELETE handler after the gate.  fault = n makes the n-th query throw
\* (1 ownership SELECT, 2 DELETE).
DeleteTask(T, h, user, taskId, fault) ==
    IF h >= PoolSize
    THEN [resp |-> InternalError("Failed to delete task"), tasks |-> T, held |-> h]
    ELSE IF fault = 1
    THEN [resp |-> InternalError("Failed to delete task"), tasks |-> T, held |-> h + 1]
    ELSE IF OwnedRows(T, taskId, user.id) = {}
    THEN [resp |-> NotFound, tasks |-> T, held |-> h]
    ELSE IF fault = 2
    THEN [resp |-> InternalError("Failed to delete task"), tasks |-> T, held |-> h + 1]
    ELSE [resp |-> [code |-> 200, message |-> "Task deleted successfully"],
          tasks |-> RemoveRow(T, taskId), held |-> h]

(***************************************************************************)
(* State machine: one action per request                                   *)
(***************************************************************************)
NoProcs == [p \in {} |-> 0]

NoRequest == [op |-> "none"]

NoResponse == [code |-> 0]

\* the state a request finds, with the exchange that preceded it
Snapshot ==
    [tasks |-> tasks, nextId |-> nextId, held |-> held, clock |-> clock,
     req |-> req, resp |-> resp]

\* The state after construction: an empty table, a fresh pool (the startup
\* probe of server.js lines 55-88 releases its connection in finally).
Init ==
    /\ tasks = {}
    /\ nextId = 1
    /\ clock = 0
    /\ held = 0
    /\ req = NoRequest
    /\ resp = NoResponse
    /\ pre = [tasks |-> {}, nextId |-> 1, held |-> 0, clock |-> 0,
              req |-> NoRequest, resp |-> NoResponse]
    /\ procs = NoProcs

\* The wall clock advances; timestamps have one-second precision.
Tick ==
    /\ clock < MaxClock
    /\ clock' = clock + 1
    /\ UNCHANGED <<tasks, nextId, held, req, resp, pre, procs>>

\* The client has read the response; the exchange is over.
Deliver ==
    /\ resp # NoResponse
    /\ req' = NoRequest
    /\ resp' = NoResponse
    /\ pre' = [Snapshot EXCEPT !.req = NoRequest, !.resp = NoResponse]
    /\ UNCHANGED <<tasks, nextId, clock, held, procs>>

Idle == resp = NoResponse

Get(header, query, fault, tb) ==
    LET a == AuthenticateToken(header)
    IN  /\ req' = [op |-> "GET", header |-> header, query |-> query, fault |-> fault]
        /\ pre' = Snapshot
        /\ IF ~a.next
           THEN resp' = a.res /\ held' = held
           ELSE LET r == GetTasks(tasks, held, a.user, query, fault, tb)
                IN  resp' = r.resp /\ held' = r.held
        /\ UNCHANGED <<tasks, nextId, clock, procs>>

Post(header, body, fault, cap) ==
    LET a == AuthenticateToken(header)
    IN  /\ nextId <= cap
        /\ req' = [op |-> "POST", header |-> header, body |-> body, fault |-> fault]
        /\ pre' = Snapshot
        /\ IF ~a.next
           THEN resp' = a.res /\ UNCHANGED <<tasks, nextId, held>>
           ELSE LET r == CreateTask(tasks, nextId, held, a.user, body, clock, fault)
                IN  resp' = r.resp /\ tasks' = r.tasks /\ nextId' = r.nextId /\ held' = r.held
        /\ UNCHANGED <<clock, procs>>

Patch(header, taskId, body, fault) ==
    LET a == AuthenticateToken(header)
    IN  /\ req' = [op |-> "PATCH", header |-> header, taskId |-> taskId, body |-> body,
                   fault |-> fault]
        /\ pre' = Snapshot
        /\ IF ~a.next
           THEN resp' = a.res /\ UNCHANGED <<tasks, held>>
           ELSE LET r == UpdateTask(tasks, held, a.user, taskId, body, clock, fault)
                IN  resp' = r.resp /\ tasks' = r.tasks /\ held' = r.held
        /\ UNCHANGED <<nextId, clock, procs>>

Delete(header, taskId, fault) ==
    LET a == AuthenticateToken(header)
    IN  /\ req' = [op |-> "DELETE", header |-> header, taskId |-> taskId, fault |-> fault]
        /\ pre' = Snapshot
        /\ IF ~a.next
           THEN resp' = a.res /\ UNCHANGED <<tasks, held>>
           ELSE LET r == DeleteTask(tasks, held, a.user, taskId, fault)
                IN  resp' = r.resp /\ tasks' = r.tasks /\ held' = r.held
        /\ UNCHANGED <<nextId, clock, procs>>

(***************************************************************************)
(* Spec: every route, no data-access fault                                 *)
(***************************************************************************)
Headers ==
    {NoHeader, <<"Bearer">>, <<"Bearer", "", "tok1">>, <<"Bearer", "expired">>,
     <<"Bearer", "tok1">>, <<"Bearer", "tok2">>}

PostBodies ==
    [title : {Undefined, "", "a", "b"}, description : {Undefined, "d"},
     status : {Undefined, "completed", "bogus"}]

PatchBodies ==
    [title : {Undefined, "", "b"}, description : {Undefined, Null},
     status : {Undefined, "in_progress", "bogus"}]

Queries ==
    [page : {UndefinedParam, <<"2">>},
     limit : {UndefinedParam, <<"1">>},
     status : {Undefined, "pending", "bogus"},
     sort : {NoSort, <<"title", "desc">>, <<"created_at">>, <<"unknownfield", "asc">>}]

TaskIds == 1..(MaxTasks + 1)

\* the requests tried with a header: every one when the gate lets it pass,
\* one representative when the gate answers
Tried(header, inputs) ==
    IF AuthenticateToken(header).next THEN inputs ELSE {CHOOSE i \in inputs : TRUE}

GetReq ==
    \E header \in Headers : \E query \in Tried(header, Queries) :
        \E tb \in Tried(header, TieBreaks) : Get(header, query, 0, tb)

PostReq ==
    \E header \in Headers : \E body \in Tried(header, PostBodies) :
        Post(header, body, 0, MaxTasks)

PatchReq ==
    \E header \in Headers, taskId \in TaskIds : \E body \in Tried(header, PatchBodies) :
        Patch(header, taskId, body, 0)

DeleteReq ==
    \E header \in Headers, taskId \in TaskIds : Delete(header, taskId, 0)

Next ==
    \/ Tick
    \/ Deliver
    \/ Idle /\ GetReq
    \/ Idle /\ PostReq
    \/ Idle /\ PatchReq
    \/ Idle /\ DeleteReq

Spec == Init /\ [][Next]_vars

(***************************************************************************)
(* Properties of Spec                                                      *)
(***************************************************************************)
\* what a request's Authorization header carries, read off the header itself
HasToken(header) == Len(header) >= 2 /\ header[2] # ""

ValidTokens == {"tok1", "tok2"}

Admitted(r) == r.op # "none" /\ HasToken(r.header) /\ r.header[2] \in ValidTokens

\* the user id embedded in the token of an admitted request
Requester(r) == IF r.header[2] = "tok1" THEN 1 ELSE 2

StoreUntouched == tasks = pre.tasks /\ nextId = pre.nextId /\ held = pre.held

\* C1: a 200 listing answered to identity U holds only rows whose owner is U,
\* in the response and in the table, whatever page, limit, status and sort
\* the request carries.
C1_ListingOnlyOwnTasks ==
    (req.op = "GET" /\ resp.code = 200) =>
        \A i \in 1..Len(resp.tasks) :
            /\ resp.tasks[i].user_id = Requester(req)
            /\ \E t \in tasks : t.id = resp.tasks[i].id /\ t.user_id = Requester(req)

\* a listing with rows is answered while the table also holds a row of
\* another user that passes the request's status filter
C1_Witness ==
    /\ req.op = "GET" /\ resp.code = 200 /\ Len(resp.tasks) >= 1
    /\ \E t \in tasks :
           /\ t.user_id # Requester(req)
           /\ (req.query.status \in StatusEnum => t.status = req.query.status)

\* C2: a request without a token is answered 401 "Authentication token is
\* required", a request with a token that does not verify is answered 403
\* (not 401); in both cases the table, the id counter and the pool are as
\* the request found them.
C2_GateRejects ==
    /\ (req.op # "none" /\ ~HasToken(req.header)) =>
           /\ resp.code = 401
           /\ resp.message = "Authentication token is required"
           /\ StoreUntouched
    /\ (req.op # "none" /\ HasToken(req.header) /\ req.header[2] \notin ValidTokens) =>
           /\ resp.code = 403
           /\ resp.code # 401
           /\ StoreUntouched

\* a DELETE of an existing task with an expired token is answered 403
C2_Witness ==
    /\ req.op = "DELETE" /\ HasToken(req.header) /\ resp.code = 403
    /\ \E t \in tasks : t.id = req.taskId

\* the response of the PATCH or DELETE handler to request r over table T
MutationResponse(r, T) ==
    IF r.op = "PATCH"
    THEN UpdateTask(T, pre.held, [id |-> Requester(r)], r.taskId, r.body, pre.clock,
                    r.fault).resp
    ELSE DeleteTask(T, pre.held, [id |-> Requester(r)], r.taskId, r.fault).resp

\* C3: PATCH and DELETE by U on a task id that U does not own are answered
\* with the one 404 body, whether the id is absent or another user's, for
\* every request body, and leave the table unchanged; and the response to
\* any PATCH or DELETE by U is the response U would get from the table
\* without the other users' tasks.
C3_OwnershipOpaque ==
    (req.op \in {"PATCH", "DELETE"} /\ Admitted(req)) =>
        /\ (~\E t \in pre.tasks : t.id = req.taskId /\ t.user_id = Requester(req)) =>
               resp = NotFound /\ tasks = pre.tasks
        /\ resp = MutationResponse(req, {t \in pre.tasks : t.user_id = Requester(req)})

\* a PATCH with fields to update, aimed at another user's task, is answered 404
C3_Witness ==
    /\ req.op = "PATCH" /\ Admitted(req) /\ resp.code = 404
    /\ req.body.title = "b"
    /\ \E t \in tasks : t.id = req.taskId /\ t.user_id # Requester(req)

\* the row a PATCH with this body leaves in place of row old
Patched(old, body, now) ==
    [id |-> old.id,
     user_id |-> old.user_id,
     created_at |-> old.created_at,
     updated_at |-> now,
     title |-> IF body.title = Undefined THEN old.title ELSE body.title,
     description |-> IF body.description = Undefined THEN old.description
                     ELSE body.description,
     status |-> IF body.status = Undefined THEN old.status ELSE body.status]

\* C4: a PATCH answered 200 replaces the requester's row of that id by the
\* row with the body's fields written, updated_at set to the time of the
\* request and every other field kept; every other row is unchanged.
C4_PartialUpdate ==
    (req.op = "PATCH" /\ resp.code = 200) =>
        \E old \in pre.tasks :
            /\ old.id = req.taskId
            /\ old.user_id = Requester(req)
            /\ tasks = (pre.tasks \ {old}) \cup {Patched(old, req.body, pre.clock)}

\* a PATCH with only description succeeds on a row titled "b", last updated
\* before the request's second, next to another row
C4_Witness ==
    /\ req.op = "PATCH" /\ resp.code = 200
    /\ req.body.title = Undefined /\ req.body.status = Undefined
    /\ Cardinality(tasks) >= 2
    /\ \E old \in pre.tasks :
           old.id = req.taskId /\ old.title = "b" /\ old.updated_at < pre.clock

\* C5: the total of a 200 listing is the number of the requester's rows that
\* pass the listing's status filter (none when status is absent or outside
\* the enum).
C5_TotalMatchesFilter ==
    (req.op = "GET" /\ resp.code = 200) =>
        resp.total = Cardinality({t \in pre.tasks :
                          /\ t.user_id = Requester(req)
                          /\ (req.query.status \in StatusEnum => t.status = req.query.status)})

\* C6: a 200 listing whose sort names a field outside the allow-list is in
\* created_at descending order.
C6_UnknownSortFallsBack ==
    (/\ req.op = "GET" /\ resp.code = 200
     /\ SortGiven(req.query.sort) /\ req.query.sort[1] \notin SortFields) =>
        \A i, j \in 1..Len(resp.tasks) :
            i < j => resp.tasks[i].createdAt >= resp.tasks[j].createdAt

(***************************************************************************)
(* SpecPool: data-access faults, out-of-range paging and the pool          *)
(***************************************************************************)
PoolHeader == <<"Bearer", "tok1">>

PoolQueries ==
    [page : {UndefinedParam, <<"0">>, <<"-", "5">>, <<"a", "b", "c">>, <<"1">>, <<"2">>},
     limit : {UndefinedParam, <<"0">>, <<"-", "1">>, <<"x">>, <<"1">>},
     status : {Undefined},
     sort : {NoSort}]

PoolPostBodies ==
    [title : {"", "a"}, description : {Undefined}, status : {Undefined}]

PoolPatchBodies ==
    [title : {Undefined, Null, "b"}, description : {Undefined}, status : {Undefined}]

PoolGet ==
    \E query \in PoolQueries, fault \in 0..2, tb \in TieBreaks :
        Get(PoolHeader, query, fault, tb)

PoolPost ==
    \E body \in PoolPostBodies, fault \in 0..1 : Post(PoolHeader, body, fault, MaxTasks)

PoolPatch ==
    \E taskId \in TaskIds, body \in PoolPatchBodies, fault \in 0..3 :
        Patch(PoolHeader, taskId, body, fault)

PoolDelete ==
    \E taskId \in TaskIds, fault \in 0..2 : Delete(PoolHeader, taskId, fault)

NextPool ==
    \/ Tick
    \/ Deliver
    \/ Idle /\ PoolGet
    \/ Idle /\ PoolPost
    \/ Idle /\ PoolPatch
    \/ Idle /\ PoolDelete

SpecPool == Init /\ [][NextPool]_vars

\* the number a page or limit parameter denotes is absent, zero, negative
\* or not a number
NotPositive(param) == ParseInt(param).nan \/ ParseInt(param).val <= 0

\* C7: a listing whose page is zero, negative or non-numeric, and whose
\* limit is such a value or a positive number, is answered like page 1
\* (and limit 10): status 200, page 1, the default limit, and the total and
\* rows of the first page; it is not turned into an error.
C7_TolerantPaging ==
    (/\ req.op = "GET" /\ Admitted(req) /\ req.fault = 0 /\ pre.held < PoolSize
     /\ NotPositive(req.query.page)) =>
        /\ resp.code = 200
        /\ resp.page = 1
        /\ NotPositive(req.query.limit) => resp.limit = DefaultLimit
        /\ Len(resp.tasks) = Min(resp.limit, resp.total)

\* C10: no pool connection is held once a request has been answered.
C10_ConnectionsReleased == held = 0

(***************************************************************************)
(* SpecRT: one user creates tasks in bulk and lists them with the defaults *)
(***************************************************************************)
DefaultQuery ==
    [page |-> UndefinedParam, limit |-> UndefinedParam, status |-> Undefined, sort |-> NoSort]

\* the bulk of the tasks is created with one body; the other body is used
\* while the table is small
BulkBody == [title |-> "a", description |-> Undefined, status |-> Undefined]

FullBody == [title |-> "b", description |-> "d", status |-> "completed"]

RTPost == Post(PoolHeader, BulkBody, 0, MaxBulk) \/ Post(PoolHeader, FullBody, 0, MaxTasks)

RTGet == \E tb \in TieBreaks : Get(PoolHeader, DefaultQuery, 0, tb)

NextRT == Tick \/ RTPost \/ RTGet

SpecRT == Init /\ [][NextRT]_vars

\* a default listing answered right after the same user's successful POST
RoundTrip ==
    /\ req.op = "GET" /\ resp.code = 200 /\ req.query = DefaultQuery
    /\ pre.req.op = "POST" /\ pre.resp.code = 201
    /\ req.header = pre.req.header

\* the listing holds the created task exactly once, as the POST reported it
ListedOnceAsCreated ==
    /\ Cardinality({i \in 1..Len(resp.tasks) : resp.tasks[i].id = pre.resp.taskId}) = 1
    /\ \A i \in 1..Len(resp.tasks) :
           resp.tasks[i].id = pre.resp.taskId =>
               /\ resp.tasks[i].title = pre.resp.title
               /\ resp.tasks[i].description = pre.resp.description
               /\ resp.tasks[i].status = pre.resp.status
               /\ (pre.req.body.status = Undefined => resp.tasks[i].status = "pending")

\* the requester's other rows created in the created task's second or later
NotOlderThanCreated ==
    {t \in tasks :
        /\ t.user_id = Requester(req)
        /\ t.id # pre.resp.taskId
        /\ \E c \in tasks : c.id = pre.resp.taskId /\ t.created_at >= c.created_at}

\* C8 as stated: every default listing right after a successful POST holds
\* the created task exactly once with the reported fields.
C8_RoundTrip == RoundTrip => ListedOnceAsCreated

\* C8 amended: it does when fewer than 10 (the default limit) of the
\* requester's other tasks were created in the same second or later.
C8_RoundTripFirstPage ==
    (RoundTrip /\ Cardinality(NotOlderThanCreated) < DefaultLimit) => ListedOnceAsCreated

\* the requester holds more tasks than a page, the created one is the
\* newest, and the default listing shows it
C8_Witness ==
    /\ RoundTrip
    /\ Cardinality(tasks) > DefaultLimit
    /\ Cardinality(NotOlderThanCreated) < DefaultLimit
    /\ ListedOnceAsCreated

(***************************************************************************)
(* SpecConc: PATCH and DELETE handled concurrently, one step per await     *)
(***************************************************************************)
Pids == {1, 2}

IdleProc == [pc |-> "idle"]

InitConc ==
    /\ tasks = {}
    /\ nextId = 1
    /\ clock = 0
    /\ held = 0
    /\ req = NoRequest
    /\ resp = NoResponse
    /\ pre = [tasks |-> {}, nextId |-> 1, held |-> 0, clock |-> 0,
              req |-> NoRequest, resp |-> NoResponse]
    /\ procs = [p \in Pids |-> IdleProc]

ConcPatchBody == [title |-> "b", description |-> Undefined, status |-> Undefined]

\* lines 141-145, 232-235: the gate admits the request and getConnection
\* hands it a connection of the pool
Begin(p, op, header, taskId, body) ==
    LET a == AuthenticateToken(header)
    IN  /\ procs[p].pc = "idle"
        /\ a.next
        /\ held < PoolSize
        /\ held' = held + 1
        /\ procs' = [procs EXCEPT ![p] =
                        [pc |-> "check", op |-> op, user |-> a.user, taskId |-> taskId,
                         body |-> body, now |-> 0, res |-> NoResponse]]
        /\ UNCHANGED <<tasks, nextId, clock, req, resp, pre>>

\* lines 148-199: the ownership SELECT has answered; 404, validation, and
\* the timestamp of the UPDATE
PatchCheck(p) ==
    LET me == procs[p]
        v == ValidateUpdate(me.body)
    IN  /\ me.pc = "check" /\ me.op = "PATCH"
        /\ IF OwnedRows(tasks, me.taskId, me.user.id) = {}
           THEN /\ procs' = [procs EXCEPT ![p].pc = "done", ![p].res = NotFound]
                /\ held' = held - 1
           ELSE IF v = "throw"
           THEN /\ procs' = [procs EXCEPT ![p].pc = "done",
                                          ![p].res = InternalError("Failed to update task")]
                /\ held' = held
           ELSE IF v # "ok"
           THEN /\ procs' = [procs EXCEPT ![p].pc = "done", ![p].res = BadRequest(v)]
                /\ held' = held - 1
           ELSE /\ procs' = [procs EXCEPT ![p].pc = "update", ![p].now = clock]
                /\ held' = held
        /\ UNCHANGED <<tasks, nextId, clock, req, resp, pre>>

\* lines 201-202: the UPDATE has run
PatchUpdate(p) ==
    LET me == procs[p]
    IN  /\ me.pc = "update"
        /\ tasks' = ApplyUpdate(tasks, me.taskId, me.body, me.now)
        /\ procs' = [procs EXCEPT ![p].pc = "reread"]
        /\ UNCHANGED <<nextId, clock, held, req, resp, pre>>

\* lines 204-220: the re-read has answered; release and res.json(updatedTask)
PatchReread(p) ==
    LET me == procs[p]
    IN  /\ me.pc = "reread"
        /\ procs' = [procs EXCEPT ![p].pc = "done",
                                  ![p].res = [code |-> 200, task |-> ReRead(tasks, me.taskId)]]
        /\ held' = held - 1
        /\ UNCHANGED <<tasks, nextId, clock, req, resp, pre>>

\* lines 238-247: the ownership SELECT of DELETE has answered
DeleteCheck(p) ==
    LET me == procs[p]
    IN  /\ me.pc = "check" /\ me.op = "DELETE"
        /\ IF OwnedRows(tasks, me.taskId, me.user.id) = {}
           THEN /\ procs' = [procs EXCEPT ![p].pc = "done", ![p].res = NotFound]
                /\ held' = held - 1
           ELSE /\ procs' = [procs EXCEPT ![p].pc = "remove"]
                /\ held' = held
        /\ UNCHANGED <<tasks, nextId, clock, req, resp, pre>>

\* lines 249-252: the DELETE has run; release and the confirmation
DeleteRemove(p) ==
    LET me == procs[p]
    IN  /\ me.pc = "remove"
        /\ tasks' = RemoveRow(tasks, me.taskId)
        /\ procs' = [procs EXCEPT ![p].pc = "done",
                                  ![p].res = [code |-> 200,
                                              message |-> "Task deleted successfully"]]
        /\ held' = held - 1
        /\ UNCHANGED <<nextId, clock, req, resp, pre>>

\* the client has read the response
End(p) ==
    /\ procs[p].pc = "done"
    /\ procs' = [procs EXCEPT ![p] = IdleProc]
    /\ UNCHANGED <<tasks, nextId, clock, held, req, resp, pre>>

ConcPost == Post(PoolHeader, BulkBody, 0, MaxTasks)

NextConc ==
    \/ Tick
    \/ ConcPost
    \/ \E p \in Pids, taskId \in TaskIds : Begin(p, "PATCH", PoolHeader, taskId, ConcPatchBody)
    \/ \E p \in Pids, taskId \in TaskIds : Begin(p, "DELETE", PoolHeader, taskId, Undefined)
    \/ \E p \in Pids : PatchCheck(p)
    \/ \E p \in Pids : PatchUpdate(p)
    \/ \E p \in Pids : PatchReread(p)
    \/ \E p \in Pids : DeleteCheck(p)
    \/ \E p \in Pids : DeleteRemove(p)
    \/ \E p \in Pids : End(p)

SpecConc == InitConc /\ [][NextConc]_vars

\* C9: every PATCH answered 200 returns one task row, and the row carries
\* the title, description and status the PATCH wrote.
C9_PatchReturnsUpdatedRow ==
    \A p \in Pids :
        (procs[p].pc = "done" /\ procs[p].op = "PATCH" /\ procs[p].res.code = 200) =>
            /\ Len(procs[p].res.task) = 1
            /\ procs[p].body.title # Undefined =>
                   procs[p].res.task[1].title = procs[p].body.title
            /\ procs[p].body.description # Undefined =>
                   procs[p].res.task[1].description = procs[p].body.description
            /\ procs[p].body.status # Undefined =>
                   procs[p].res.task[1].status = procs[p].body.status

====
